---- MODULE Spec2Model ----
(***************************************************************************)
(* Model of the puzzle table generator of the "database querier" game:     *)
(* skiddie/games/database_querier/{constraints,table,columns}.py.          *)
(*                                                                         *)
(* Python exceptions are modelled as outcomes: every operation that can    *)
(* raise returns a record [st, val, rs] whose st is "ok" or the name of    *)
(* the exception.  Randomness is modelled as a stream fixed by the seed    *)
(* of a random.Random object: the stream is revealed draw by draw (a draw  *)
(* past the revealed prefix may return any value in range and is recorded),*)
(* and re-seeding with the same seed rewinds to the start of the stream.   *)
(* Operations that draw are therefore set-valued: they return the set of   *)
(* all outcomes the draws can produce.                                     *)
(***************************************************************************)
EXTENDS Integers, Sequences, FiniteSets, TLC

\* ----------------------------------------------------------------- bounds
MaxRows == 5
MaxDiscreteRows == 3
MaxTableRows == 3
MaxColumns == 3
MaxDiscreteValues == 2
\* rows asked of one generate call
MaxGenerateRows == 4
\* the value ranges and name pools of the continuous generators, cut down:
\* values of the integer generators (max_value - min_value)
ValueCount == 5
\* seconds of one day, seconds of DateColumnGenerator.max_range, and the
\* start values that its randrange can draw
DaySeconds == 2
DateRangeSeconds == 5
DateStarts == 2
\* entries of NameColumnGenerator.first_names and of last_names
NameCount == 2
\* rows and columns of a table wide enough for two discrete columns
MaxWideRows == 2
MaxWideColumns == 6
\* the least num_columns with round(0.25 * num_columns) = 2
WideColumns == 6
\* columns of a table whose generators alone are listed
MaxGeneratorColumns == 24
\* play(): the challenges to win, and the rows and columns of its tables
MaxChallenges == 2
MaxPlayRows == 2
MaxPlayColumns == 2
\* rows of the table at the easiest difficulty (launcher/common.py)
EasyRows == 20

\* ------------------------------------------------------- python primitives
Abs(x) == IF x < 0 THEN -x ELSE x

\* seq[i] of Python raises IndexError unless -len <= i < len
PyIndexOK(s, i) == IF i >= 0 THEN i < Len(s) ELSE -i <= Len(s)

\* seq[i] of Python (0-based, negative i counts from the end)
PyAt(s, i) == IF i >= 0 THEN s[i + 1] ELSE s[Len(s) + i + 1]

\* range(a, b) of Python, as the sequence of its elements
PyRange(a, b) == [k \in 1..(IF b > a THEN b - a ELSE 0) |-> a + k - 1]

\* the set of elements of a sequence
Elems(s) == {s[k] : k \in 1..Len(s)}

\* sorted(list(S)) for a set S of integers
RECURSIVE SortedSeq(_)
SortedSeq(S) ==
    IF S = {} THEN <<>>
    ELSE LET least == CHOOSE x \in S : \A y \in S : x <= y
         IN  <<least>> \o SortedSeq(S \ {least})

\* ---------------------------------------------------------------- outcomes
Ok(v, rs) == [st |-> "ok", val |-> v, rs |-> rs]
Raise(e, rs) == [st |-> e, val |-> 0, rs |-> rs]

\* continue with F on every successful outcome, propagate every exception
Bind(S, F(_)) == UNION {IF o.st = "ok" THEN F(o) ELSE {Raise(o.st, o.rs)} : o \in S}

\* ------------------------------------------------------------ random.Random
\* A freshly seeded source: nothing of the stream is revealed yet.
NewRandomSource == [stream |-> <<>>, pos |-> 0]

\* Random.seed(self._random_seed): the same seed, so the same stream from
\* its start.
Reseed(rs) == [rs EXCEPT !.pos = 0]

\* Random._randbelow(size): the next value of the stream, in 0..size-1
RandBelow(rs, size) ==
    IF size <= 0 THEN {Raise("ValueError", rs)}
    ELSE IF rs.pos < Len(rs.stream)
         THEN {Ok(rs.stream[rs.pos + 1], [rs EXCEPT !.pos = @ + 1])}
         ELSE {Ok(v, [stream |-> Append(rs.stream, v), pos |-> rs.pos + 1]) :
                  v \in 0..(size - 1)}

\* Random.randint(a, b): a <= N <= b
Randint(rs, a, b) ==
    Bind(RandBelow(rs, b - a + 1), LAMBDA o : {Ok(a + o.val, o.rs)})

\* Random.randrange(a, b): a <= N < b
Randrange(rs, a, b) ==
    Bind(RandBelow(rs, b - a), LAMBDA o : {Ok(a + o.val, o.rs)})

\* ------------------------------------------------------------- Constraint
ContinuousTypes == {"LessThan", "GreaterThan", "Range"}
DiscreteTypes == {"Equal", "NotEqual"}

\* mutant of ConstraintInit: an infeasible reduce_amount is clamped to the
\* size of the overlap instead of raising
ConstraintInit_Clamped(type, data, overlapping_indices, reduce_amount) ==
    [st |-> "ok",
     val |-> <<[type |-> type,
                data |-> data,
                overlapping_indices |-> overlapping_indices,
                reduce_amount |-> IF reduce_amount > Len(overlapping_indices)
                                  THEN Len(overlapping_indices)
                                  ELSE reduce_amount,
                random_source |-> NewRandomSource]>>]

\* Constraint.__init__ / ContinuousConstraint.__init__: the object, or the
\* ValueError raised instead of it.  A continuous constraint owns a random
\* source seeded once, here.
ConstraintInit(type, data, overlapping_indices, reduce_amount) ==
    IF reduce_amount > Len(overlapping_indices)
    THEN [st |-> "ValueError", val |-> <<>>]
    ELSE [st |-> "ok",
          val |-> <<[type |-> type,
                     data |-> data,
                     overlapping_indices |-> overlapping_indices,
                     reduce_amount |-> reduce_amount,
                     random_source |-> NewRandomSource]>>]

\* mutant of SeedRandomSource: the source is not re-seeded
SeedRandomSource_Never(c) == c.random_source

\* ContinuousConstraint._seed_random_source
SeedRandomSource(c) == Reseed(c.random_source)

\* ContinuousConstraint._get_random_start_index
GetRandomStartIndex(rs, ov, min_index, max_index) ==
    IF max_index = 0
    THEN IF PyIndexOK(ov, 0) THEN {Ok(PyAt(ov, 0), rs)} ELSE {Raise("IndexError", rs)}
    ELSE IF ~PyIndexOK(ov, min_index) \/ ~PyIndexOK(ov, max_index)
         THEN {Raise("IndexError", rs)}
         ELSE Randint(rs, PyAt(ov, min_index) + 1, PyAt(ov, max_index))

\* mutant of GetRandomEndIndex: the upper end of the draw is not lowered by 1
GetRandomEndIndex_Inclusive(rs, ov, min_index, max_index) ==
    IF min_index \in {Len(ov) - 1, -1}
    THEN IF PyIndexOK(ov, Len(ov) - 1)
         THEN {Ok(PyAt(ov, Len(ov) - 1), rs)}
         ELSE {Raise("IndexError", rs)}
    ELSE IF ~PyIndexOK(ov, min_index) \/ ~PyIndexOK(ov, max_index)
         THEN {Raise("IndexError", rs)}
         ELSE Randint(rs, PyAt(ov, min_index), PyAt(ov, max_index))

\* ContinuousConstraint._get_random_end_index
GetRandomEndIndex(rs, ov, min_index, max_index) ==
    IF min_index \in {Len(ov) - 1, -1}
    THEN IF PyIndexOK(ov, Len(ov) - 1)
         THEN {Ok(PyAt(ov, Len(ov) - 1), rs)}
         ELSE {Raise("IndexError", rs)}
    ELSE IF ~PyIndexOK(ov, min_index) \/ ~PyIndexOK(ov, max_index)
         THEN {Raise("IndexError", rs)}
         ELSE Randint(rs, PyAt(ov, min_index), PyAt(ov, max_index) - 1)

\* mutant of StartIndex: max_index is reduce_amount + 1, one position too high
StartIndex_OneFurther(rs, c) ==
    LET max_index == c.reduce_amount + 1
        min_index == max_index - 1
    IN  GetRandomStartIndex(rs, c.overlapping_indices, min_index, max_index)

\* ContinuousConstraint._start_index
StartIndex(rs, c) ==
    LET max_index == c.reduce_amount
        min_index == max_index - 1
    IN  GetRandomStartIndex(rs, c.overlapping_indices, min_index, max_index)

\* mutant of EndIndex: min_index is -reduce_amount, one position too high
EndIndex_OffByOne(rs, c) ==
    LET min_index == -c.reduce_amount
        max_index == min_index + 1
    IN  GetRandomEndIndex(rs, c.overlapping_indices, min_index, max_index)

\* ContinuousConstraint._end_index
EndIndex(rs, c) ==
    LET min_index == -(c.reduce_amount + 1)
        max_index == min_index + 1
    IN  GetRandomEndIndex(rs, c.overlapping_indices, min_index, max_index)

\* LessThanConstraint.indices
LessThanIndices(c) ==
    Bind(EndIndex(SeedRandomSource(c), c),
         LAMBDA e : {Ok(PyRange(0, e.val + 1), e.rs)})

\* mutant of GreaterThanIndices: the range stops one row short of the column
GreaterThanIndices_Short(c) ==
    Bind(StartIndex(SeedRandomSource(c), c),
         LAMBDA s : {Ok(PyRange(s.val, Len(c.data.rows) - 1), s.rs)})

\* GreaterThanConstraint.indices
GreaterThanIndices(c) ==
    Bind(StartIndex(SeedRandomSource(c), c),
         LAMBDA s : {Ok(PyRange(s.val, Len(c.data.rows)), s.rs)})

\* mutant of GetRangeAfter: the end is drawn from overlapping_indices[-1] on,
\* not from the row after it
GetRangeAfter_FromLast(rs, c) ==
    Bind(StartIndex(rs, c),
         LAMBDA s :
            IF ~PyIndexOK(c.overlapping_indices, -1) THEN {Raise("IndexError", s.rs)}
            ELSE Bind(Randrange(s.rs, PyAt(c.overlapping_indices, -1),
                                Len(c.data.rows)),
                      LAMBDA e : {Ok(PyRange(s.val, e.val + 1), e.rs)}))

\* RangeConstraint.indices.get_range_after
GetRangeAfter(rs, c) ==
    Bind(StartIndex(rs, c),
         LAMBDA s :
            IF ~PyIndexOK(c.overlapping_indices, -1) THEN {Raise("IndexError", s.rs)}
            ELSE Bind(Randrange(s.rs, PyAt(c.overlapping_indices, -1) + 1,
                                Len(c.data.rows)),
                      LAMBDA e : {Ok(PyRange(s.val, e.val + 1), e.rs)}))

\* RangeConstraint.indices.get_range_before
GetRangeBefore(rs, c) ==
    IF ~PyIndexOK(c.overlapping_indices, 0) THEN {Raise("IndexError", rs)}
    ELSE Bind(Randrange(rs, 0, PyAt(c.overlapping_indices, 0)),
              LAMBDA s :
                 Bind(EndIndex(s.rs, c),
                      LAMBDA e : {Ok(PyRange(s.val, e.val + 1), e.rs)}))

\* RangeConstraint.indices.get_range_inside
GetRangeInside(rs, c) ==
    Bind(Randint(rs, 0, c.reduce_amount),
         LAMBDA m :
            LET max_start == m.val
                min_start == max_start - 1
                min_end == max_start
                           + (Len(c.overlapping_indices) - 1 - c.reduce_amount)
                max_end == min_end + 1
            IN  Bind(GetRandomStartIndex(m.rs, c.overlapping_indices,
                                         min_start, max_start),
                     LAMBDA s :
                        Bind(GetRandomEndIndex(s.rs, c.overlapping_indices,
                                               min_end, max_end),
                             LAMBDA e : {Ok(PyRange(s.val, e.val + 1), e.rs)})))

\* RangeConstraint.indices
RangeIndices(c) ==
    LET rs == SeedRandomSource(c)
        ov == c.overlapping_indices
    IN  IF ~PyIndexOK(ov, 0) THEN {Raise("IndexError", rs)}
        ELSE LET at_start == PyAt(ov, 0) = 0
                 at_end == PyAt(ov, -1) + 1 = Len(c.data.rows)
             IN  IF at_start /\ at_end THEN GetRangeInside(rs, c)
                 ELSE IF at_start THEN GetRangeAfter(rs, c)
                 ELSE IF at_end THEN GetRangeBefore(rs, c)
                 ELSE Bind(GetRangeAfter(rs, c),
                           LAMBDA a :
                      Bind(GetRangeBefore(a.rs, c),
                           LAMBDA b :
                      Bind(GetRangeInside(b.rs, c),
                           LAMBDA i :
                      Bind(RandBelow(i.rs, 3),
                           LAMBDA k :
                              {Ok(<<a.val, b.val, i.val>>[k.val + 1], k.rs)}))))

\* set(self.data.rows)
RowValues(data) == Elems(data.rows)

\* the dictionary occurrences_in_overlap, at one value
OccurrencesInOverlap(c, value) ==
    Cardinality({k \in 1..Len(c.overlapping_indices) :
                    c.data.rows[c.overlapping_indices[k] + 1] = value})

\* DiscreteConstraint._distance
Distance(c, occurrences) ==
    LET reduce_amount == Len(c.overlapping_indices) - occurrences
    IN  Abs(reduce_amount - c.reduce_amount)

\* min(items, key=...): the first item, in the iteration order of the
\* dictionary, whose key is the least
PyMin(order, Key(_)) ==
    LET best == CHOOSE k \in 1..Len(order) :
                   /\ \A j \in 1..Len(order) : Key(order[k]) <= Key(order[j])
                   /\ \A j \in 1..(k - 1) : Key(order[j]) > Key(order[k])
    IN  order[best]

\* max(items, key=...): the first item, in the iteration order of the
\* dictionary, whose key is the greatest
PyMax(order, Key(_)) ==
    LET best == CHOOSE k \in 1..Len(order) :
                   /\ \A j \in 1..Len(order) : Key(order[k]) >= Key(order[j])
                   /\ \A j \in 1..(k - 1) : Key(order[j]) < Key(order[k])
    IN  order[best]

\* [i for i, value in enumerate(rows) if P(value)]
IndicesWhere(rows, P(_)) ==
    SortedSeq({i \in 0..(Len(rows) - 1) : P(rows[i + 1])})

\* mutant of EqualClosestValue: max in place of min
EqualClosestValue_Farthest(c) ==
    PyMax(c.data.hash_order, LAMBDA v : Distance(c, OccurrencesInOverlap(c, v)))

\* EqualConstraint.indices: the value picked (closest_value)
EqualClosestValue(c) ==
    PyMin(c.data.hash_order, LAMBDA v : Distance(c, OccurrencesInOverlap(c, v)))

\* mutant of EqualIndices: only rows of the overlap are returned
EqualIndices_InOverlap(c) ==
    IF c.data.rows = <<>> THEN {Raise("ValueError", c.random_source)}
    ELSE {Ok(SortedSeq({i \in Elems(c.overlapping_indices) :
                           c.data.rows[i + 1] = EqualClosestValue(c)}),
             c.random_source)}

\* EqualConstraint.indices
EqualIndices(c) ==
    IF c.data.rows = <<>> THEN {Raise("ValueError", c.random_source)}
    ELSE {Ok(IndicesWhere(c.data.rows, LAMBDA value : value = EqualClosestValue(c)),
             c.random_source)}

\* mutant of NotEqualClosestValue: min in place of max
NotEqualClosestValue_Min(c) ==
    PyMin(c.data.hash_order, LAMBDA v : Distance(c, OccurrencesInOverlap(c, v)))

\* NotEqualConstraint.indices: the value picked (closest_value)
NotEqualClosestValue(c) ==
    PyMax(c.data.hash_order, LAMBDA v : Distance(c, OccurrencesInOverlap(c, v)))

\* NotEqualConstraint.indices
NotEqualIndices(c) ==
    IF c.data.rows = <<>> THEN {Raise("ValueError", c.random_source)}
    ELSE {Ok(IndicesWhere(c.data.rows, LAMBDA value : value # NotEqualClosestValue(c)),
             c.random_source)}

\* Constraint.indices, dispatched on the class of the object
Indices(c) ==
    CASE c.type = "LessThan" -> LessThanIndices(c)
      [] c.type = "GreaterThan" -> GreaterThanIndices(c)
      [] c.type = "Range" -> RangeIndices(c)
      [] c.type = "Equal" -> EqualIndices(c)
      [] c.type = "NotEqual" -> NotEqualIndices(c)

\* ------------------------------------------------------ Constraint.format
\* the FormattedText of a rule: the column name in its own style, the text
\* put before it (the lower value of a range, "{0} <= ") and the text put
\* after it (relation and value, " == {0}").  "{0}".format(text) is the text.
FormattedText(prefix, name, relation, value) ==
    [prefix |-> prefix, name |-> name, relation |-> relation, value |-> value]

\* self.data.rows[index] for an index that a read of indices returned
RowAt(c, index, rs) ==
    IF PyIndexOK(c.data.rows, index) THEN {Ok(PyAt(c.data.rows, index), rs)}
    ELSE {Raise("IndexError", rs)}

\* sequence[index] of the indices that a read returned
IndexAt(indices, index, rs) ==
    IF PyIndexOK(indices, index) THEN {Ok(PyAt(indices, index), rs)}
    ELSE {Raise("IndexError", rs)}

\* the constraint as a read of indices leaves it
AfterRead(c, o) == [c EXCEPT !.random_source = o.rs]

\* EqualConstraint.format
EqualFormat(c) ==
    Bind(EqualIndices(c), LAMBDA read :
    Bind(IndexAt(read.val, 0, read.rs), LAMBDA first_index :
    Bind(RowAt(c, first_index.val, first_index.rs), LAMBDA row :
       {Ok(FormattedText(<<>>, c.data.name, " == ", row.val), row.rs)})))

\* NotEqualConstraint.format: next() of the rows that are not in indices
NotEqualFormat(c) ==
    Bind(NotEqualIndices(c), LAMBDA read :
       LET missing == {i \in 0..(Len(c.data.rows) - 1) : i \notin Elems(read.val)}
       IN  IF missing = {} THEN {Raise("StopIteration", read.rs)}
           ELSE LET first_index == CHOOSE i \in missing : \A j \in missing : i <= j
                IN  {Ok(FormattedText(<<>>, c.data.name, " != ",
                                      c.data.rows[first_index + 1]), read.rs)})

\* mutant of LessThanFormat: the value at the lowest index is shown
LessThanFormat_Lowest(c) ==
    Bind(LessThanIndices(c), LAMBDA read :
    Bind(IndexAt(read.val, 0, read.rs), LAMBDA highest_index :
    Bind(RowAt(c, highest_index.val, highest_index.rs), LAMBDA row :
       {Ok(FormattedText(<<>>, c.data.name, " <= ", row.val), row.rs)})))

\* LessThanConstraint.format
LessThanFormat(c) ==
    Bind(LessThanIndices(c), LAMBDA read :
    Bind(IndexAt(read.val, -1, read.rs), LAMBDA highest_index :
    Bind(RowAt(c, highest_index.val, highest_index.rs), LAMBDA row :
       {Ok(FormattedText(<<>>, c.data.name, " <= ", row.val), row.rs)})))

\* GreaterThanConstraint.format
GreaterThanFormat(c) ==
    Bind(GreaterThanIndices(c), LAMBDA read :
    Bind(IndexAt(read.val, 0, read.rs), LAMBDA lowest_index :
    Bind(RowAt(c, lowest_index.val, lowest_index.rs), LAMBDA row :
       {Ok(FormattedText(<<>>, c.data.name, " >= ", row.val), row.rs)})))

\* RangeConstraint.format: two reads of indices, one for each end
RangeFormat(c) ==
    Bind(RangeIndices(c), LAMBDA first_read :
    Bind(IndexAt(first_read.val, 0, first_read.rs), LAMBDA lowest_index :
    Bind(RangeIndices(AfterRead(c, lowest_index)), LAMBDA second_read :
    Bind(IndexAt(second_read.val, -1, second_read.rs), LAMBDA highest_index :
    Bind(RowAt(c, lowest_index.val, highest_index.rs), LAMBDA low :
    Bind(RowAt(c, highest_index.val, low.rs), LAMBDA high :
       {Ok(FormattedText(<<low.val>>, c.data.name, " <= ", high.val),
           high.rs)}))))))

\* Constraint.format, dispatched on the class of the object
Format(c) ==
    CASE c.type = "LessThan" -> LessThanFormat(c)
      [] c.type = "GreaterThan" -> GreaterThanFormat(c)
      [] c.type = "Range" -> RangeFormat(c)
      [] c.type = "Equal" -> EqualFormat(c)
      [] c.type = "NotEqual" -> NotEqualFormat(c)

\* ------------------------------------------------------------ column data
\* possible_values of PriorityColumnGenerator
PriorityValues == {"low", "medium", "high"}

\* every order in which the elements of S can be iterated
IterationOrders(S) ==
    {p \in [1..Cardinality(S) -> S] : \A i, j \in 1..Cardinality(S) : i # j => p[i] # p[j]}

\* The columns a continuous generator can return for n rows: n distinct
\* values of its domain in ascending order (sorted(random.sample(...))).
\* The domain is cut down to 0..domain-1.
ContinuousColumns(n, domain) ==
    {[name |-> "age", rows |-> SortedSeq(S)] :
        S \in {T \in SUBSET (0..(domain - 1)) : Cardinality(T) = n}}

\* The columns a discrete generator can return for n rows when its values
\* are limited to `values`: each row is random.choice(values).  hash_order
\* is the order in which this process iterates over set(rows).
DiscreteColumns(n, values) ==
    UNION {{[name |-> "priority", rows |-> rows, hash_order |-> order] :
               order \in IterationOrders(Elems(rows))} :
           rows \in [1..n -> values]}

\* every ascending duplicate-free sequence of row indices of an n-row column
Overlaps(n) == {SortedSeq(S) : S \in SUBSET (0..(n - 1))}

\* -------------------------------------------------------- column generators
\* possible_values of BooleanColumnGenerator
BooleanValues == {"true", "false"}

\* ContinuousColumnGenerator subclasses: they differ in value domain and
\* names only, which no constraint reads, so one stands for all
ContinuousGenerator == [kind |-> "continuous"]

\* DiscreteColumnGenerator.__init__, as called by the two subclasses
DiscreteGeneratorInit(possible_values, max_discrete_values) ==
    LET limit == IF max_discrete_values = 0 THEN Cardinality(possible_values)
                 ELSE max_discrete_values
    IN  IF limit <= 1
        THEN [st |-> "ValueError", val |-> <<>>]
        ELSE [st |-> "ok",
              val |-> <<[kind |-> "discrete",
                         possible_values |-> possible_values,
                         max_discrete_values |-> limit]>>]

\* mutant of LimitValues: the values are not limited
LimitValues_All(gen) == {gen.possible_values}

\* DiscreteColumnGenerator._limit_values: random.sample of max_discrete_values
\* values, or all the values when there are fewer than that
LimitValues(gen) ==
    IF gen.max_discrete_values <= Cardinality(gen.possible_values)
    THEN {V \in SUBSET gen.possible_values :
             Cardinality(V) = gen.max_discrete_values}
    ELSE {gen.possible_values}

\* ColumnGenerator.generate(rows): the columns it can return
Generate(gen, rows) ==
    IF gen.kind = "continuous"
    THEN ContinuousColumns(rows, rows)
    ELSE UNION {DiscreteColumns(rows, values) : values \in LimitValues(gen)}

\* mutant of GetValidConstraints: every constraint class, whatever the kind
GetValidConstraints_AnyClass(gen) == ContinuousTypes \cup DiscreteTypes

\* get_valid_constraints as create_table calls it, with one generator: the
\* constraint classes valid for the kind of the generator
GetValidConstraints(gen) ==
    IF gen.kind = "continuous" THEN ContinuousTypes ELSE DiscreteTypes

\* ------------------------------------------ continuous column generators
\* generators whose entries are integers of a range put into text one to one
\* (str, "${0:.2f}", "{0:05d}", time.isoformat)
IntegerGenerators == {"age", "price", "postal_code", "time"}

\* ContinuousColumnGenerator.__subclasses__()
ContinuousGenerators == IntegerGenerators \cup {"date", "name"}

\* the names handed to ColumnGenerator.__init__
GeneratorNames(kind) ==
    CASE kind = "age" -> {"age"}
      [] kind = "date" -> {"date", "start_date", "end_date"}
      [] kind = "price" -> {"price", "cost", "revenue", "profit", "valuation"}
      [] kind = "postal_code" -> {"zip_code", "postal_code", "post_code"}
      [] kind = "time" -> {"time", "start_time", "end_time"}
      [] kind = "name" -> {"name", "full_name"}

\* random.shuffle(sequence): the orders it can leave
Shuffled(sequence) ==
    {[i \in 1..Len(sequence) |-> sequence[order[i]]] :
        order \in IterationOrders(1..Len(sequence))}

\* take_random_cycle(sequence, items): the first items of a cycle over a
\* shuffled copy
TakeRandomCycle(sequence, items) ==
    {[i \in 1..items |-> cycle[((i - 1) % Len(sequence)) + 1]] :
        cycle \in Shuffled(sequence)}

\* list.sort(): ascending, equal entries kept
RECURSIVE SortedList(_)
SortedList(list) ==
    IF list = <<>> THEN <<>>
    ELSE LET least == CHOOSE i \in 1..Len(list) :
                         \A j \in 1..Len(list) : list[i] <= list[j]
         IN  <<list[least]>>
             \o SortedList([i \in 1..(Len(list) - 1) |->
                               IF i < least THEN list[i] ELSE list[i + 1]])

\* ContinuousColumnGenerator._sample_and_sort: random.sample raises
\* ValueError when more items are asked than there are
SampleAndSort(values, num_items) ==
    IF num_items > Cardinality(values)
    THEN {[st |-> "ValueError", val |-> <<>>]}
    ELSE {[st |-> "ok", val |-> SortedSeq(S)] :
             S \in {T \in SUBSET values : Cardinality(T) = num_items}}

\* " ".join(pair): first and last names are numbered in alphabetical order,
\* so the order of the texts is the order of these numbers
FullName(first, last) == first * NameCount + last

\* NameColumnGenerator.generate
NameGenerate(rows) ==
    LET names == [i \in 1..NameCount |-> i - 1]
    IN  UNION {UNION {UNION {
          {[st |-> "ok",
            val |-> SortedList([i \in 1..rows |->
                                  FullName(first_names[i], last_names[i])])] :
              last_names \in Shuffled(last_cycle)} :
              first_names \in Shuffled(first_cycle)} :
              last_cycle \in TakeRandomCycle(names, rows)} :
              first_cycle \in TakeRandomCycle(names, rows)}

\* DateColumnGenerator.generate: date.fromtimestamp(value) keeps the day of
\* a value in seconds, and isoformat puts days into text one to one
DateGenerate(rows) ==
    UNION {{[st |-> o.st,
             val |-> [i \in 1..Len(o.val) |-> o.val[i] \div DaySeconds]] :
               o \in SampleAndSort(start..(start + DateRangeSeconds - 1), rows)} :
           start \in 0..(DateStarts - 1)}

\* generate(rows) of a continuous generator: what it returns or raises
ContinuousGenerate(kind, rows) ==
    CASE kind \in IntegerGenerators -> SampleAndSort(0..(ValueCount - 1), rows)
      [] kind = "date" -> DateGenerate(rows)
      [] kind = "name" -> NameGenerate(rows)

\* mutant of PyRoundDiv: halves go up
PyRoundDiv_HalfUp(a, b) ==
    LET q == a \div b
        rem == a % b
    IN  IF 2 * rem < b THEN q ELSE q + 1

\* ------------------------------------------------------------------ Table
\* round(a / b) of Python for a >= 0, b > 0: halves go to the even neighbour
PyRoundDiv(a, b) ==
    LET q == a \div b
        rem == a % b
    IN  IF 2 * rem < b THEN q
        ELSE IF 2 * rem > b THEN q + 1
        ELSE IF q % 2 = 0 THEN q ELSE q + 1

\* Table.__init__
TableInit(rows, columns) ==
    [num_rows |-> rows, num_columns |-> columns, columns |-> <<>>]

\* Table.remaining_columns
RemainingColumns(t) == t.num_columns - Len(t.columns)

\* mutant of ReadColumns: each column read replaces the rows found so far
RECURSIVE ReadColumns_LastWins(_, _, _)
ReadColumns_LastWins(cols, k, common) ==
    IF k > Len(cols) THEN {[st |-> "ok", val |-> common, rs |-> cols]}
    ELSE UNION {
           LET read == [cols EXCEPT ![k].constraint.random_source = o.rs]
           IN  IF o.st = "ok"
               THEN ReadColumns_LastWins(read, k + 1, Elems(o.val))
               ELSE {[st |-> o.st, val |-> {}, rs |-> read]}
           : o \in Indices(cols[k].constraint)}

\* the read of constraint.indices of columns k, k+1, ... in turn, `common`
\* being the intersection of the columns before k
RECURSIVE ReadColumns(_, _, _)
ReadColumns(cols, k, common) ==
    IF k > Len(cols) THEN {[st |-> "ok", val |-> common, rs |-> cols]}
    ELSE UNION {
           LET read == [cols EXCEPT ![k].constraint.random_source = o.rs]
           IN  IF o.st = "ok"
               THEN ReadColumns(read, k + 1,
                                IF k = 1 THEN Elems(o.val)
                                ELSE common \cap Elems(o.val))
               ELSE {[st |-> o.st, val |-> {}, rs |-> read]}
           : o \in Indices(cols[k].constraint)}

\* mutant of OverlappingIndices: list(common_indices) without sorted(), the
\* set handing its elements out in descending order
OverlappingIndices_Unsorted(t) ==
    IF t.columns = <<>>
    THEN {[st |-> "ok", val |-> PyRange(0, t.num_rows), rs |-> t.columns]}
    ELSE {[st |-> o.st,
           val |-> LET sorted == SortedSeq(o.val)
                   IN  [i \in 1..Len(sorted) |-> sorted[Len(sorted) + 1 - i]],
           rs |-> o.rs] :
             o \in ReadColumns(t.columns, 1, {})}

\* Table.overlapping_indices: the outcomes of a read, each with the columns
\* as the read leaves them (the random sources of their constraints)
OverlappingIndices(t) ==
    IF t.columns = <<>>
    THEN {[st |-> "ok", val |-> PyRange(0, t.num_rows), rs |-> t.columns]}
    ELSE {[st |-> o.st, val |-> SortedSeq(o.val), rs |-> o.rs] :
             o \in ReadColumns(t.columns, 1, {})}

\* mutant of GetRandomGenerators: the first continuous generator is put
\* before the discrete ones
GetRandomGenerators_Interleaved(num_columns, max_discrete_values) ==
    LET boolean == DiscreteGeneratorInit(BooleanValues, max_discrete_values)
        priority == DiscreteGeneratorInit(PriorityValues, max_discrete_values)
        continuous_count == PyRoundDiv(3 * num_columns, 4)
        discrete_count == PyRoundDiv(num_columns, 4)
    IN  IF boolean.st # "ok" \/ priority.st # "ok"
        THEN {[st |-> "ValueError", val |-> <<>>]}
        ELSE {[st |-> "ok",
               val |-> [i \in 1..(IF continuous_count > 0 THEN 1 ELSE 0) |-> ContinuousGenerator]
                       \o [i \in 1..discrete_count |-> shuffled[((i - 1) % 2) + 1]]
                       \o [i \in 1..(continuous_count - 1) |-> ContinuousGenerator]] :
                 shuffled \in {<<boolean.val[1], priority.val[1]>>,
                               <<priority.val[1], boolean.val[1]>>}}

\* mutant of GetRandomGenerators: the discrete generators are put after the
\* continuous ones
GetRandomGenerators_DiscreteLast(num_columns, max_discrete_values) ==
    LET boolean == DiscreteGeneratorInit(BooleanValues, max_discrete_values)
        priority == DiscreteGeneratorInit(PriorityValues, max_discrete_values)
        continuous_count == PyRoundDiv(3 * num_columns, 4)
        discrete_count == PyRoundDiv(num_columns, 4)
    IN  IF boolean.st # "ok" \/ priority.st # "ok"
        THEN {[st |-> "ValueError", val |-> <<>>]}
        ELSE {[st |-> "ok",
               val |-> [i \in 1..continuous_count |-> ContinuousGenerator]
                       \o [i \in 1..discrete_count |-> shuffled[((i - 1) % 2) + 1]]] :
                 shuffled \in {<<boolean.val[1], priority.val[1]>>,
                               <<priority.val[1], boolean.val[1]>>}}

\* Table._get_random_generators: the generator lists it can return.  Both
\* discrete subclasses are instantiated whatever the number of columns.
GetRandomGenerators(num_columns, max_discrete_values) ==
    LET boolean == DiscreteGeneratorInit(BooleanValues, max_discrete_values)
        priority == DiscreteGeneratorInit(PriorityValues, max_discrete_values)
        continuous_count == PyRoundDiv(3 * num_columns, 4)
        discrete_count == PyRoundDiv(num_columns, 4)
    IN  IF boolean.st # "ok" \/ priority.st # "ok"
        THEN {[st |-> "ValueError", val |-> <<>>]}
        ELSE {[st |-> "ok",
               val |-> [i \in 1..discrete_count |-> shuffled[((i - 1) % 2) + 1]]
                       \o [i \in 1..continuous_count |-> ContinuousGenerator]] :
                 shuffled \in {<<boolean.val[1], priority.val[1]>>,
                               <<priority.val[1], boolean.val[1]>>}}

\* mutant of ReduceAmount: no row is reserved
ReduceAmount_NoReserve(overlapping_rows, remaining_columns) ==
    PyRoundDiv(overlapping_rows, remaining_columns)

\* mutant of ReduceAmount: one row more is taken, not one less
ReduceAmount_OneMore(overlapping_rows, remaining_columns) ==
    PyRoundDiv(overlapping_rows, remaining_columns) + 1

\* create_table: reduce_amount of the column being generated
ReduceAmount(overlapping_rows, remaining_columns) ==
    PyRoundDiv(overlapping_rows, remaining_columns) - 1

\* ------------------------------------------------- one constraint object
VARIABLES
    constraint,   \* <<>> before construction, <<object>> after it
    call,         \* the arguments of the constructor call
    result,       \* what the last operation returned or raised
    previous,     \* what the operation before it returned or raised
    table,        \* the Table object
    column_generators,  \* create_table: its local list of generators, in
                        \* generation order (<<>> outside create_table)
    pc,           \* where create_table is
    max_values_arg,  \* create_table: <<max_discrete_values>>, its argument
                     \* (<<>> outside create_table and once it left its loop)
    exception,    \* the exception create_table raised
    generator,    \* a continuous column generator ("none" before construction)
    generated,    \* what its generate(rows) returned or raised
    answer,       \* the row the player selected and what was reported
    play          \* play(): its arguments, its completed_challenges and
                  \* where it is

vars == <<constraint, call, result, previous, table, column_generators, pc,
          max_values_arg, exception, generator, generated, answer, play>>
constraintVars == <<constraint, call, result, previous>>
tableVars == <<table, column_generators, pc, max_values_arg, exception>>
generatorVars == <<generator, generated>>
answerVars == <<answer>>
playVars == <<play>>

NoCall == [type |-> "none", num_rows |-> 0, overlapping_indices |-> <<>>,
           reduce_amount |-> 0]

NoResult == [op |-> "none", st |-> "ok", val |-> <<>>]

NoConstraintObject ==
    /\ constraint = <<>>
    /\ call = NoCall
    /\ result = NoResult
    /\ previous = NoResult

NoTableObject ==
    /\ table = TableInit(0, 0)
    /\ column_generators = <<>>
    /\ pc = "none"
    /\ max_values_arg = <<>>
    /\ exception = "none"

NoGenerated == [st |-> "none", num_rows |-> 0, name |-> "", rows |-> <<>>]

NoGeneratorObject ==
    /\ generator = "none"
    /\ generated = NoGenerated

NoAnswer == [st |-> "none", index |-> 0, result |-> FALSE]

NoPlay == [pc |-> "none", challenges_to_win |-> 0, completed_challenges |-> 0,
           rows |-> 0, continuous_columns |-> 0, discrete_columns |-> 0]

Init ==
    /\ NoConstraintObject
    /\ NoTableObject
    /\ NoGeneratorObject
    /\ answer = NoAnswer
    /\ play = NoPlay

\* constraint_class(column_data, overlapping_indices, reduce_amount)
Construct(type, data, ov, r) ==
    /\ LET made == ConstraintInit(type, data, ov, r)
       IN  /\ constraint' = made.val
           /\ result' = [op |-> "init", st |-> made.st, val |-> <<>>]
    /\ call' = [type |-> type, num_rows |-> Len(data.rows),
                overlapping_indices |-> ov, reduce_amount |-> r]
    /\ previous' = result
    /\ UNCHANGED <<tableVars, generatorVars, answerVars, playVars>>

\* a read of constraint.indices
ReadIndices ==
    /\ constraint # <<>>
    /\ \E o \in Indices(constraint[1]) :
          /\ constraint' = <<[constraint[1] EXCEPT !.random_source = o.rs]>>
          /\ result' = [op |-> "indices", st |-> o.st,
                        val |-> IF o.st = "ok" THEN o.val ELSE <<>>]
    /\ previous' = result
    /\ UNCHANGED <<call, tableVars, generatorVars, answerVars, playVars>>

\* a call of constraint.format()
FormatConstraint ==
    /\ constraint # <<>>
    /\ \E o \in Format(constraint[1]) :
          /\ constraint' = <<[constraint[1] EXCEPT !.random_source = o.rs]>>
          /\ result' = [op |-> "format", st |-> o.st,
                        val |-> IF o.st = "ok" THEN <<o.val>> ELSE <<>>]
    /\ previous' = result
    /\ UNCHANGED <<call, tableVars, generatorVars, answerVars, playVars>>

ConstructContinuous ==
    /\ result.op = "none"
    /\ \E n \in 1..MaxRows, type \in ContinuousTypes :
        \E data \in ContinuousColumns(n, n + 1), ov \in Overlaps(n) :
            \E r \in -1..(Len(ov) + 1) : Construct(type, data, ov, r)

ConstructDiscrete ==
    /\ result.op = "none"
    /\ \E n \in 1..MaxDiscreteRows, type \in DiscreteTypes :
        \E data \in DiscreteColumns(n, PriorityValues), ov \in Overlaps(n) :
            \E r \in -1..(Len(ov) + 1) : Construct(type, data, ov, r)

\* the first column of a table of the easiest difficulty: every row overlaps
ConstructEasy ==
    /\ result.op = "none"
    /\ \E type \in ContinuousTypes, r \in 0..(EasyRows - 1) :
        Construct(type, [name |-> "age", rows |-> PyRange(0, EasyRows)],
                  PyRange(0, EasyRows), r)

Next ==
    \/ ConstructContinuous
    \/ ConstructDiscrete
    \/ ConstructEasy
    \/ ReadIndices
    \/ FormatConstraint

Spec == Init /\ [][Next]_vars

\* ---------------------------------------------------------- one Table
\* Table(rows, columns)
NewTable ==
    /\ pc = "none"
    /\ \E rows \in 2..MaxTableRows, columns \in 0..MaxColumns :
          table' = TableInit(rows, columns)
    /\ pc' = "new"
    /\ UNCHANGED <<column_generators, max_values_arg, exception, constraintVars,
                   generatorVars, answerVars, playVars>>

\* create_table, up to the loop: columns.clear() and _get_random_generators
StartCreateTable ==
    /\ pc = "new"
    /\ \E max_discrete_values \in -1..MaxDiscreteValues :
          \E made \in GetRandomGenerators(table.num_columns, max_discrete_values) :
             /\ max_values_arg' = <<max_discrete_values>>
             /\ column_generators' = made.val
             /\ pc' = IF made.st = "ok" THEN "generating" ELSE "raised"
             /\ exception' = IF made.st = "ok" THEN "none" ELSE made.st
    /\ table' = [table EXCEPT !.columns = <<>>]
    /\ UNCHANGED <<constraintVars, generatorVars, answerVars, playVars>>

\* create_table raises e; the columns are left as the reads left them
RaiseInCreate(e, columns) ==
    /\ pc' = "raised"
    /\ exception' = e
    /\ table' = [table EXCEPT !.columns = columns]
    /\ column_generators' = <<>>
    /\ max_values_arg' = <<>>

\* create_table: one iteration of the loop over column_generators
CreateColumn ==
    /\ pc = "generating"
    /\ Len(table.columns) < Len(column_generators)
    /\ LET column_generator == column_generators[Len(table.columns) + 1]
       IN  \E column_data \in Generate(column_generator, table.num_rows),
              constraint_class \in GetValidConstraints(column_generator) :
             \E rows_read \in OverlappingIndices(table) :
                IF rows_read.st # "ok"
                THEN RaiseInCreate(rows_read.st, rows_read.rs)
                ELSE
                LET t1 == [table EXCEPT !.columns = rows_read.rs]
                IN  IF RemainingColumns(t1) = 0
                    THEN RaiseInCreate("ZeroDivisionError", t1.columns)
                    ELSE
                    \E overlap_read \in OverlappingIndices(t1) :
                       IF overlap_read.st # "ok"
                       THEN RaiseInCreate(overlap_read.st, overlap_read.rs)
                       ELSE
                       LET reduce_amount == ReduceAmount(Len(rows_read.val),
                                                         RemainingColumns(t1))
                           made == ConstraintInit(constraint_class, column_data,
                                                  overlap_read.val, reduce_amount)
                       IN  IF made.st # "ok"
                           THEN RaiseInCreate(made.st, overlap_read.rs)
                           ELSE /\ table' = [table EXCEPT !.columns =
                                               Append(overlap_read.rs,
                                                      [data |-> column_data,
                                                       constraint |-> made.val[1]])]
                                /\ UNCHANGED <<pc, exception, column_generators,
                                                max_values_arg>>
    /\ UNCHANGED <<constraintVars, generatorVars, answerVars, playVars>>

\* create_table, after the loop: random.shuffle(self.columns)
ShuffleColumns ==
    /\ pc = "generating"
    /\ Len(table.columns) = Len(column_generators)
    /\ \E order \in IterationOrders(1..Len(table.columns)) :
          table' = [table EXCEPT !.columns =
                       [i \in 1..Len(table.columns) |-> table.columns[order[i]]]]
    /\ pc' = "done"
    /\ column_generators' = <<>>
    /\ max_values_arg' = <<>>
    /\ UNCHANGED <<exception, constraintVars, generatorVars, answerVars, playVars>>

\* a call of _get_random_generators alone, on a table of up to
\* MaxGeneratorColumns columns
ListGenerators ==
    /\ pc = "none"
    /\ \E columns \in 0..MaxGeneratorColumns,
          max_discrete_values \in 0..MaxDiscreteValues :
          \E made \in GetRandomGenerators(columns, max_discrete_values) :
             /\ table' = TableInit(2, columns)
             /\ column_generators' = made.val
             /\ pc' = IF made.st = "ok" THEN "listed" ELSE "raised"
             /\ exception' = IF made.st = "ok" THEN "none" ELSE made.st
    /\ UNCHANGED <<max_values_arg, constraintVars, generatorVars, answerVars,
                   playVars>>

NextTable ==
    \/ NewTable
    \/ StartCreateTable
    \/ CreateColumn
    \/ ShuffleColumns

SpecTable == Init /\ [][NextTable]_vars

\* Table(rows, columns) with columns for two discrete generators
NewWideTable ==
    /\ pc = "none"
    /\ \E rows \in 2..MaxWideRows, columns \in WideColumns..MaxWideColumns :
          table' = TableInit(rows, columns)
    /\ pc' = "new"
    /\ UNCHANGED <<column_generators, max_values_arg, exception, constraintVars,
                   generatorVars, answerVars, playVars>>

\* create_table on a wide table, up to the end of its loop
NextWide ==
    \/ NewWideTable
    \/ StartCreateTable
    \/ CreateColumn

SpecWide == Init /\ [][NextWide]_vars

\* create_table, and _get_random_generators on its own
NextColumns ==
    \/ NextTable
    \/ ListGenerators

SpecColumns == Init /\ [][NextColumns]_vars

\* ------------------------------------------------- the player's answer
\* mutant of IsCorrect: the header line is counted as a row
IsCorrect_HeaderCounted(index, overlapping_indices) ==
    (index + 1) \in Elems(overlapping_indices)

\* TableScreen._handle_answer: index in self.table.overlapping_indices
IsCorrect(index, overlapping_indices) == index \in Elems(overlapping_indices)

\* the player selects one of the row buttons of a generated table:
\* _handle_answer(index) leaves the application with the result
HandleAnswer ==
    /\ pc = "done"
    /\ answer.st = "none"
    /\ \E index \in 0..(table.num_rows - 1) :
          \E o \in OverlappingIndices(table) :
             /\ answer' = [st |-> o.st, index |-> index,
                           result |-> IF o.st = "ok" THEN IsCorrect(index, o.val)
                                      ELSE FALSE]
             /\ table' = [table EXCEPT !.columns = o.rs]
    /\ UNCHANGED <<column_generators, pc, max_values_arg, exception,
                   constraintVars, generatorVars, playVars>>

NextAnswer ==
    \/ NewTable
    \/ StartCreateTable
    \/ CreateColumn
    \/ ShuffleColumns
    \/ HandleAnswer

SpecAnswer == Init /\ [][NextAnswer]_vars

\* ------------------------------------------------------------------ play
\* Table(rows, continuous_columns, discrete_columns) as play calls it: a
\* table of that many rows and of the columns of both kinds, none created
PlayTable(rows, continuous_columns, discrete_columns) ==
    TableInit(rows, continuous_columns + discrete_columns)

\* mutant of CompletedAfter: an incorrect answer resets the count
CompletedAfter_ResetOnMiss(completed_challenges, answer_is_correct) ==
    IF answer_is_correct THEN completed_challenges + 1 ELSE 0

\* play: the body of the loop after app.run() has returned
CompletedAfter(completed_challenges, answer_is_correct) ==
    IF answer_is_correct THEN completed_challenges + 1 ELSE completed_challenges

\* play is left, by return or by an exception: its locals are gone
LeavePlay(p, how, e) ==
    /\ play' = [p EXCEPT !.pc = how]
    /\ table' = TableInit(0, 0)
    /\ column_generators' = <<>>
    /\ pc' = "none"
    /\ max_values_arg' = <<>>
    /\ exception' = e
    /\ answer' = NoAnswer

\* play: the test of the while loop with p.completed_challenges, and what
\* follows it: a new Table for the next round, or print_correct_message and
\* the return
LoopTest(p) ==
    IF p.completed_challenges < p.challenges_to_win
    THEN /\ play' = [p EXCEPT !.pc = "round"]
         /\ table' = PlayTable(p.rows, p.continuous_columns, p.discrete_columns)
         /\ column_generators' = <<>>
         /\ pc' = "new"
         /\ max_values_arg' = <<>>
         /\ exception' = "none"
         /\ answer' = NoAnswer
    ELSE LeavePlay(p, "returned", "none")

\* play(challenges_to_win, rows, continuous_columns, discrete_columns)
StartPlay ==
    /\ play.pc = "none"
    /\ pc = "none"
    /\ \E challenges_to_win \in 0..MaxChallenges, rows \in 2..MaxPlayRows,
          continuous_columns \in 0..MaxPlayColumns,
          discrete_columns \in 0..MaxPlayColumns :
          /\ continuous_columns + discrete_columns <= MaxPlayColumns
          /\ LoopTest([pc |-> "round",
                       challenges_to_win |-> challenges_to_win,
                       completed_challenges |-> 0,
                       rows |-> rows,
                       continuous_columns |-> continuous_columns,
                       discrete_columns |-> discrete_columns])
    /\ UNCHANGED <<constraintVars, generatorVars>>

\* play: app.run() has returned answer_is_correct; the count, the message
\* and the next test of the loop
EndRound ==
    /\ play.pc = "round"
    /\ answer.st = "ok"
    /\ LoopTest([play EXCEPT !.completed_challenges =
                                CompletedAfter(@, answer.result)])
    /\ UNCHANGED <<constraintVars, generatorVars>>

\* play: create_table or the answer handler raised
PlayRaise ==
    /\ play.pc = "round"
    /\ \/ pc = "raised" /\ LeavePlay(play, "raised", exception)
       \/ answer.st \notin {"none", "ok"} /\ LeavePlay(play, "raised", answer.st)
    /\ UNCHANGED <<constraintVars, generatorVars>>

\* the player presses c-c: app.run() raises KeyboardInterrupt
PlayInterrupt ==
    /\ play.pc = "round"
    /\ pc = "done"
    /\ answer.st = "none"
    /\ LeavePlay(play, "raised", "KeyboardInterrupt")
    /\ UNCHANGED <<constraintVars, generatorVars>>

NextPlay ==
    \/ StartPlay
    \/ StartCreateTable
    \/ CreateColumn
    \/ ShuffleColumns
    \/ HandleAnswer
    \/ PlayInterrupt
    \/ EndRound
    \/ PlayRaise

SpecPlay == Init /\ [][NextPlay]_vars

\* ------------------------------------------ one continuous generator
\* subclass() of a ContinuousColumnGenerator subclass
NewGenerator ==
    /\ generator = "none"
    /\ \E kind \in ContinuousGenerators : generator' = kind
    /\ UNCHANGED <<generated, constraintVars, tableVars, answerVars, playVars>>

\* generator.generate(rows)
GenerateColumn ==
    /\ generator # "none"
    /\ generated.st = "none"
    /\ \E rows \in 1..MaxGenerateRows :
          \E o \in ContinuousGenerate(generator, rows),
             name \in GeneratorNames(generator) :
             generated' = [st |-> o.st, num_rows |-> rows,
                           name |-> IF o.st = "ok" THEN name ELSE "",
                           rows |-> o.val]
    /\ UNCHANGED <<generator, constraintVars, tableVars, answerVars, playVars>>

NextGenerate ==
    \/ NewGenerator
    \/ GenerateColumn

SpecGenerate == Init /\ [][NextGenerate]_vars

\* ===================================================== claims: constraints
Obj == constraint[1]
HasRead == constraint # <<>> /\ result.op = "indices"
ReadOk == HasRead /\ result.st = "ok"
ObjRows == Len(Obj.data.rows)
ObjOverlapSize == Len(Obj.overlapping_indices)

\* the number of overlap rows that the indices just read leave out
Reduction ==
    ObjOverlapSize
    - Cardinality(Elems(Obj.overlapping_indices) \cap Elems(result.val))

\* the number of overlap rows of the constraint that carry value v
OverlapCount(v) ==
    Cardinality({i \in Elems(Obj.overlapping_indices) : Obj.data.rows[i + 1] = v})

\* the full-range rows of the constraint's column that carry value v
RowsWith(v) == {i \in 0..(ObjRows - 1) : Obj.data.rows[i + 1] = v}

\* C2: a continuous constraint constructed with 0 <= reduce_amount <=
\* len(overlapping_indices) leaves out exactly reduce_amount overlap rows.
C2_ExactReduction ==
    (/\ ReadOk
     /\ Obj.type \in ContinuousTypes
     /\ 0 <= Obj.reduce_amount
     /\ Obj.reduce_amount <= ObjOverlapSize)
    => Reduction = Obj.reduce_amount

\* C3: two consecutive reads of .indices on the same constraint object give
\* the same outcome.
C3_Deterministic ==
    (constraint # <<>> /\ result.op = "indices" /\ previous.op = "indices")
    => result = previous

C3_Witness ==
    /\ ReadOk
    /\ previous.op = "indices"
    /\ Obj.type = "Range"
    /\ Len(Obj.random_source.stream) >= 4
    /\ Len(result.val) >= 2

\* C4: a constructor call with reduce_amount > len(overlapping_indices)
\* raises ValueError and leaves no object; an object that exists carries the
\* reduce_amount and the overlap it was called with.
C4_FatalOnInfeasible ==
    /\ (call.type # "none" /\ call.reduce_amount > Len(call.overlapping_indices))
       => (constraint = <<>> /\ result.op = "init" /\ result.st = "ValueError")
    /\ constraint # <<>>
       => /\ Obj.reduce_amount = call.reduce_amount
          /\ Obj.overlapping_indices = call.overlapping_indices
          /\ Obj.reduce_amount <= ObjOverlapSize

C4_Witness ==
    /\ result.op = "init"
    /\ result.st = "ValueError"
    /\ constraint = <<>>
    /\ Len(call.overlapping_indices) >= 2
    /\ call.reduce_amount = Len(call.overlapping_indices) + 1

\* C5: the indices read from a LessThan constraint are a prefix 0..k of the
\* rows, those of a GreaterThan constraint a suffix k..num_rows-1, those of
\* a Range constraint a run of consecutive rows within 0..num_rows-1.
C5_Contiguity ==
    ReadOk =>
        LET idx == result.val
        IN  /\ Obj.type = "LessThan"
               => \E k \in 0..(ObjRows - 1) : idx = [i \in 1..(k + 1) |-> i - 1]
            /\ Obj.type = "GreaterThan"
               => \E k \in 0..(ObjRows - 1) :
                     idx = [i \in 1..(ObjRows - k) |-> k + i - 1]
            /\ Obj.type = "Range"
               => /\ \A i \in 1..Len(idx) : idx[i] \in 0..(ObjRows - 1)
                  /\ \A i \in 1..(Len(idx) - 1) : idx[i + 1] = idx[i] + 1

C5_Witness ==
    /\ ReadOk
    /\ Obj.type = "Range"
    /\ Len(result.val) >= 2
    /\ result.val[1] > 0
    /\ result.val[Len(result.val)] < ObjRows - 1
    /\ \E i \in 1..(ObjOverlapSize - 1) :
          Obj.overlapping_indices[i + 1] > Obj.overlapping_indices[i] + 1

\* C6 as stated: the last index of LessThan.indices is the overlap element
\* reduce_amount positions in from the high end, gaps or not.
C6_LastIsOverlapElement ==
    (ReadOk /\ Obj.type = "LessThan"
       /\ 0 <= Obj.reduce_amount /\ Obj.reduce_amount < ObjOverlapSize)
    => result.val[Len(result.val)]
          = Obj.overlapping_indices[ObjOverlapSize - Obj.reduce_amount]

\* C6 amended: LessThan.indices is 0..k, where k is at least the overlap
\* element reduce_amount positions in from the high end and below the next
\* overlap element; k is that element itself when reduce_amount = 0.
C6_LastWithinGap ==
    (HasRead /\ Obj.type = "LessThan"
       /\ 0 <= Obj.reduce_amount /\ Obj.reduce_amount < ObjOverlapSize)
    => /\ result.st = "ok"
       /\ LET idx == result.val
              last == idx[Len(idx)]
              at == ObjOverlapSize - Obj.reduce_amount
          IN  /\ idx = [i \in 1..(last + 1) |-> i - 1]
              /\ last >= Obj.overlapping_indices[at]
              /\ Obj.reduce_amount = 0 => last = Obj.overlapping_indices[at]
              /\ Obj.reduce_amount > 0 => last < Obj.overlapping_indices[at + 1]

C6_Witness ==
    /\ ReadOk
    /\ Obj.type = "LessThan"
    /\ Obj.reduce_amount >= 1
    /\ Obj.reduce_amount < ObjOverlapSize
    /\ result.val[Len(result.val)]
          > Obj.overlapping_indices[ObjOverlapSize - Obj.reduce_amount]

\* C7: when the overlap is the whole range 0..n-1 and 0 <= r < n, the
\* indices of a GreaterThan constraint are r..n-1 and those of a LessThan
\* constraint are 0..n-1-r, whatever the draws.
C7_FullOverlap ==
    (/\ HasRead
     /\ Obj.type \in {"LessThan", "GreaterThan"}
     /\ Obj.overlapping_indices = [i \in 1..ObjRows |-> i - 1]
     /\ 0 <= Obj.reduce_amount
     /\ Obj.reduce_amount < ObjRows)
    => /\ result.st = "ok"
       /\ Obj.type = "GreaterThan"
          => result.val = [i \in 1..(ObjRows - Obj.reduce_amount) |->
                              Obj.reduce_amount + i - 1]
       /\ Obj.type = "LessThan"
          => result.val = [i \in 1..(ObjRows - Obj.reduce_amount) |-> i - 1]

C7_Witness ==
    /\ ReadOk
    /\ Obj.type = "LessThan"
    /\ ObjRows = 20
    /\ ObjOverlapSize = 20
    /\ Obj.reduce_amount = 5
    /\ Len(result.val) = 15
    /\ result.val[15] = 14

\* the indices that an Equal and a NotEqual constraint on the data, overlap
\* and reduce_amount of the constraint return
SiblingEqual == Elems((CHOOSE o \in EqualIndices(Obj) : TRUE).val)
SiblingNotEqual == Elems((CHOOSE o \in NotEqualIndices(Obj) : TRUE).val)

\* the distance of value v as the code's comments define it: how far the
\* reduction that selecting v gives is from reduce_amount
SelectDistance(v) == Abs((ObjOverlapSize - OverlapCount(v)) - Obj.reduce_amount)

\* C8 as stated: for the same data, overlap and reduce_amount, Equal.indices
\* and NotEqual.indices are disjoint and together cover 0..num_rows-1.
C8_Complements ==
    (ReadOk /\ Obj.type \in DiscreteTypes)
    => /\ result.val = (IF Obj.type = "Equal" THEN SortedSeq(SiblingEqual)
                        ELSE SortedSeq(SiblingNotEqual))
       /\ SiblingEqual \cap SiblingNotEqual = {}
       /\ SiblingEqual \cup SiblingNotEqual = 0..(ObjRows - 1)

\* C8 amended: they are complements when every value of the column is at
\* the same distance from reduce_amount; otherwise Equal.indices is a
\* non-empty subset of NotEqual.indices.
C8_ComplementsOnlyOnTies ==
    (ReadOk /\ Obj.type \in DiscreteTypes)
    => /\ result.val = (IF Obj.type = "Equal" THEN SortedSeq(SiblingEqual)
                        ELSE SortedSeq(SiblingNotEqual))
       /\ IF \A v, w \in Elems(Obj.data.rows) : SelectDistance(v) = SelectDistance(w)
          THEN /\ SiblingEqual \cap SiblingNotEqual = {}
               /\ SiblingEqual \cup SiblingNotEqual = 0..(ObjRows - 1)
          ELSE /\ SiblingEqual # {}
               /\ SiblingEqual \subseteq SiblingNotEqual

C8_Witness ==
    /\ ReadOk
    /\ Obj.type = "NotEqual"
    /\ Cardinality(Elems(Obj.data.rows)) = 3
    /\ \E v, w \in Elems(Obj.data.rows) : SelectDistance(v) # SelectDistance(w)
    /\ SiblingEqual # SiblingNotEqual

\* C9: Equal.indices is the ascending list of all rows of the column that
\* carry one value v, and no value of the column has a reduction closer to
\* reduce_amount than v.
C9_EqualClosest ==
    (HasRead /\ Obj.type = "Equal")
    => /\ result.st = "ok"
       /\ \E v \in Elems(Obj.data.rows) :
             /\ Elems(result.val) = RowsWith(v)
             /\ Len(result.val) = Cardinality(RowsWith(v))
             /\ \A w \in Elems(Obj.data.rows) : SelectDistance(v) <= SelectDistance(w)

C9_Witness ==
    /\ ReadOk
    /\ Obj.type = "Equal"
    /\ Cardinality(Elems(Obj.data.rows)) >= 2
    /\ \A v, w \in Elems(Obj.data.rows) : v # w => SelectDistance(v) # SelectDistance(w)
    /\ ~(Elems(result.val) \subseteq Elems(Obj.overlapping_indices))
    /\ ~(Elems(Obj.overlapping_indices) \subseteq Elems(result.val))

\* C10 as stated: NotEqual.indices is all rows not carrying one value v, and
\* the number of overlap rows carrying v is at least as close to
\* reduce_amount as that of any other value, for two or more values.
C10_NotEqualClosest ==
    (ReadOk /\ Obj.type = "NotEqual" /\ Cardinality(Elems(Obj.data.rows)) >= 2)
    => \E v \in Elems(Obj.data.rows) :
          /\ Elems(result.val) = (0..(ObjRows - 1)) \ RowsWith(v)
          /\ \A w \in Elems(Obj.data.rows) :
                Abs(OverlapCount(v) - Obj.reduce_amount)
                   <= Abs(OverlapCount(w) - Obj.reduce_amount)

\* ============================================================ claims: Table
\* C1 as stated: once create_table has returned with all num_columns columns
\* in place, every read of overlapping_indices returns exactly one row index,
\* for every column count.
C1_ExactlyOneRow ==
    (pc = "done" /\ Len(table.columns) = table.num_columns)
    => \A o \in OverlappingIndices(table) : o.st = "ok" /\ Len(o.val) = 1

\* C1, amended: once create_table has returned with all num_columns columns
\* in place and num_columns >= 1, every read of overlapping_indices returns
\* exactly one row index; a table of no columns keeps every row.
C1_ExactlyOneRowOfColumns ==
    (pc = "done" /\ Len(table.columns) = table.num_columns)
    => \A o \in OverlappingIndices(table) :
          /\ o.st = "ok"
          /\ Len(o.val) = IF table.num_columns >= 1 THEN 1 ELSE table.num_rows

C1_Witness ==
    /\ pc = "done"
    /\ Len(table.columns) = table.num_columns
    /\ table.num_columns >= 3
    /\ table.num_rows >= 3
    /\ \E i \in 1..Len(table.columns) : table.columns[i].constraint.type = "NotEqual"
    /\ \E i \in 1..Len(table.columns) :
          /\ table.columns[i].constraint.type = "Range"
          /\ table.columns[i].constraint.reduce_amount >= 1

\* C11: while create_table generates columns, its generators and the
\* constraints constructed so far are in the order discrete first, continuous
\* after: no discrete one follows a continuous one, and once every column is
\* generated the last constraint constructed is a continuous one.
C11_DiscreteBeforeContinuous ==
    pc = "generating" =>
       /\ \A i, j \in 1..Len(column_generators) :
             i < j => ~(column_generators[i].kind = "continuous"
                        /\ column_generators[j].kind = "discrete")
       /\ \A i, j \in 1..Len(table.columns) :
             i < j => ~(table.columns[i].constraint.type \in ContinuousTypes
                        /\ table.columns[j].constraint.type \in DiscreteTypes)
       /\ (Len(table.columns) = Len(column_generators) /\ Len(table.columns) >= 1)
             => table.columns[Len(table.columns)].constraint.type \in ContinuousTypes

C11_Witness ==
    /\ pc = "generating"
    /\ Len(table.columns) = Len(column_generators)
    /\ Len(table.columns) >= 3
    /\ table.columns[1].constraint.type \in DiscreteTypes
    /\ table.columns[Len(table.columns)].constraint.type \in ContinuousTypes

\* C12 as stated: every reduce_amount that create_table computes and hands to
\* a constraint is an integer >= 0.
C12_ReduceAmountNonNegative ==
    \A i \in 1..Len(table.columns) :
        /\ table.columns[i].constraint.reduce_amount \in Int
        /\ table.columns[i].constraint.reduce_amount >= 0

\* what a read of overlapping_indices of table t can return or raise
OverlapOutcomes(t) ==
    {[st |-> o.st, val |-> o.val] : o \in OverlappingIndices(t)}

\* C13: the shuffle at the end of create_table leaves overlapping_indices
\* unchanged: a read after the shuffle can return exactly what a read before
\* it could, whatever the permutation.
C13_ShuffleKeepsOverlap ==
    [][(pc = "generating" /\ pc' = "done")
          => OverlapOutcomes(table') = OverlapOutcomes(table)]_vars

\* a table whose columns the shuffle has taken out of generation order
C13_Witness ==
    /\ pc = "done"
    /\ Len(table.columns) >= 3
    /\ table.columns[1].constraint.type \in ContinuousTypes
    /\ table.columns[Len(table.columns)].constraint.type \in DiscreteTypes
    /\ \A o \in OverlappingIndices(table) : o.st = "ok" /\ Len(o.val) = 1

\* the reads of .indices of the columns cols, one set of outcomes per column
ColumnReads(cols) == [k \in 1..Len(cols) |-> Indices(cols[k].constraint)]

\* C14: in every state of a Table a read of overlapping_indices returns the
\* full row range when there is no column, and otherwise the rows that the
\* .indices of every column hold, in ascending order without duplicates and
\* within 0..num_rows-1; it raises only what the .indices of a column raises.
C14_OverlapIsIntersection ==
    \A o \in OverlappingIndices(table) :
       LET reads == ColumnReads(o.rs)
       IN  IF table.columns = <<>>
           THEN o.st = "ok" /\ o.val = [i \in 1..table.num_rows |-> i - 1]
           ELSE IF o.st = "ok"
           THEN /\ \A k \in DOMAIN reads : \A q \in reads[k] : q.st = "ok"
                /\ \A i \in (0..(table.num_rows - 1)) \cup Elems(o.val) :
                      i \in Elems(o.val)
                         <=> \A k \in DOMAIN reads : \A q \in reads[k] : i \in Elems(q.val)
                /\ \A a, b \in 1..Len(o.val) : a < b => o.val[a] < o.val[b]
                /\ Elems(o.val) \subseteq 0..(table.num_rows - 1)
           ELSE \E k \in DOMAIN reads :
                   /\ \E q \in reads[k] : q.st = o.st
                   /\ \A j \in 1..(k - 1) : \A q \in reads[j] : q.st = "ok"

\* two or more columns whose common rows are not the rows of any one column
C14_Witness ==
    /\ Len(table.columns) >= 2
    /\ \E o \in OverlappingIndices(table) :
          /\ o.st = "ok"
          /\ Len(o.val) >= 1
          /\ \A k \in 1..Len(o.rs) :
                \A q \in Indices(o.rs[k].constraint) :
                    q.st = "ok" /\ Elems(q.val) # Elems(o.val)

\* C15 as stated: create_table gets past the construction of its discrete
\* generators only when its max_discrete_values is more than 1; with 1, 0 or
\* a negative value the construction raises and no generator exists.
C15_FailsUpToOne ==
    /\ pc = "generating" => max_values_arg[1] > 1
    /\ (pc = "raised" /\ max_values_arg # <<>>)
          => /\ max_values_arg[1] <= 1
             /\ exception = "ValueError"
             /\ column_generators = <<>>

\* C16: every column that a discrete generator has generated for the table
\* has num_rows entries, each one of the generator's possible_values, with at
\* most max_discrete_values distinct values among them.
C16_DiscreteDataWithinLimit ==
    pc = "generating" =>
       \A k \in 1..Len(table.columns) :
          column_generators[k].kind = "discrete" =>
             LET rows == table.columns[k].data.rows
                 column_generator == column_generators[k]
             IN  /\ Len(rows) = table.num_rows
                 /\ Elems(rows) \subseteq column_generator.possible_values
                 /\ Cardinality(Elems(rows)) <= column_generator.max_discrete_values

\* a priority column limited to two of its three values, both in use
C16_Witness ==
    /\ pc = "generating"
    /\ Len(table.columns) >= 1
    /\ column_generators[1].kind = "discrete"
    /\ column_generators[1].possible_values = PriorityValues
    /\ column_generators[1].max_discrete_values = 2
    /\ table.num_rows >= 3
    /\ Cardinality(Elems(table.columns[1].data.rows)) = 2

\* C17 as stated: generate(rows) of every continuous generator returns
\* exactly rows entries, each strictly less than the next one.
C17_StrictlyAscending ==
    generated.st = "ok" =>
       /\ Len(generated.rows) = generated.num_rows
       /\ \A i \in 1..(Len(generated.rows) - 1) :
             generated.rows[i] < generated.rows[i + 1]

AcceptedRows(o) == {i \in 0..(table.num_rows - 1) : i \in Elems(o.val)}

\* C19 as stated: the selected row of a generated table is reported correct
\* if and only if it is in overlapping_indices, and exactly one of the rows
\* 0..num_rows-1 is in it.
C19_ExactlyOneAccepted ==
    answer.st # "none" =>
       /\ answer.st = "ok"
       /\ \A o \in OverlappingIndices(table) :
             /\ o.st = "ok"
             /\ answer.result <=> answer.index \in AcceptedRows(o)
             /\ Cardinality(AcceptedRows(o)) = 1

\* C19, amended: the selected row is reported correct if and only if it is
\* in overlapping_indices; exactly one of the rows 0..num_rows-1 is in it
\* when the table has one column or more, and every row when it has none.
C19_AcceptedIffOverlapping ==
    answer.st # "none" =>
       /\ answer.st = "ok"
       /\ \A o \in OverlappingIndices(table) :
             /\ o.st = "ok"
             /\ answer.result <=> answer.index \in AcceptedRows(o)
             /\ Cardinality(AcceptedRows(o)) =
                   IF table.num_columns >= 1 THEN 1 ELSE table.num_rows

\* a row other than the first is selected and reported correct
C19_Witness ==
    /\ answer.st = "ok"
    /\ answer.result
    /\ answer.index >= 1
    /\ table.num_columns >= 2

\* C20: with the discrete columns generated first, as create_table does, a
\* generated table that has a discrete column holds exactly one overlapping
\* row; it is the order of generation that makes it so (generating the
\* discrete columns last ends with another number of overlapping rows).
C20_OneRowWithDiscreteFirst ==
    (/\ pc = "done"
     /\ \E k \in 1..Len(table.columns) :
           table.columns[k].constraint.type \in DiscreteTypes)
    => \A o \in OverlappingIndices(table) : o.st = "ok" /\ Len(o.val) = 1

\* a generated table whose discrete column left rows for the continuous
\* columns to take away
C20_Witness ==
    /\ pc = "done"
    /\ table.num_columns >= 3
    /\ \E k \in 1..Len(table.columns) :
          /\ table.columns[k].constraint.type = "Equal"
          /\ \A q \in Indices(table.columns[k].constraint) :
                q.st = "ok" /\ Len(q.val) >= 2

\* ============================================ claims: constraints, continued
ObjFirst == Obj.overlapping_indices[1]
ObjLast == Obj.overlapping_indices[ObjOverlapSize]
AtStart == ObjFirst = 0
AtEnd == ObjLast + 1 = ObjRows

\* C21: the indices read from a Range constraint are rows of 0..num_rows-1;
\* when the overlap holds both row 0 and row num_rows-1 they lie within
\* [overlap[0], overlap[-1]]; when it holds row 0 only they start inside that
\* window and end after overlap[-1]; when it holds row num_rows-1 only they
\* start before overlap[0] and end inside the window.
C21_RangePlacement ==
    (ReadOk /\ Obj.type = "Range") =>
        LET idx == result.val
        IN  /\ Elems(idx) \subseteq 0..(ObjRows - 1)
            /\ (AtStart /\ AtEnd) => Elems(idx) \subseteq ObjFirst..ObjLast
            /\ (AtStart /\ ~AtEnd)
                  => /\ idx # <<>>
                     /\ idx[1] \in ObjFirst..ObjLast
                     /\ idx[Len(idx)] > ObjLast
            /\ (~AtStart /\ AtEnd)
                  => /\ idx # <<>>
                     /\ idx[1] < ObjFirst
                     /\ idx[Len(idx)] \in ObjFirst..ObjLast

\* a range that starts before an overlap with a gap and ends inside it
C21_Witness ==
    /\ ReadOk
    /\ Obj.type = "Range"
    /\ ~AtStart
    /\ AtEnd
    /\ Obj.reduce_amount >= 1
    /\ ObjOverlapSize >= 3
    /\ result.val[1] < ObjFirst
    /\ result.val[Len(result.val)] < ObjLast

\* the overlap rows that the indices just read keep
Kept == Elems(Obj.overlapping_indices) \cap Elems(result.val)

\* the elements of the overlap at the 1-based positions a..b
OverlapSlice(a, b) == {Obj.overlapping_indices[k] : k \in a..b}

\* C22: for 0 <= reduce_amount < len(overlapping_indices) a read of .indices
\* returns, and the overlap rows it keeps are the len - reduce_amount
\* smallest for LessThan, the len - reduce_amount largest for GreaterThan,
\* and len - reduce_amount consecutive elements of the overlap for Range.
C22_KeptOverlapRows ==
    (/\ HasRead
     /\ Obj.type \in ContinuousTypes
     /\ 0 <= Obj.reduce_amount
     /\ Obj.reduce_amount < ObjOverlapSize)
    => /\ result.st = "ok"
       /\ Obj.type = "LessThan"
             => Kept = OverlapSlice(1, ObjOverlapSize - Obj.reduce_amount)
       /\ Obj.type = "GreaterThan"
             => Kept = OverlapSlice(Obj.reduce_amount + 1, ObjOverlapSize)
       /\ Obj.type = "Range"
             => \E skipped \in 0..Obj.reduce_amount :
                   Kept = OverlapSlice(skipped + 1,
                                       skipped + ObjOverlapSize - Obj.reduce_amount)

\* a range that drops overlap rows at both ends of an overlap with a gap
C22_Witness ==
    /\ ReadOk
    /\ Obj.type = "Range"
    /\ Obj.reduce_amount = 2
    /\ ObjOverlapSize >= 4
    /\ ObjFirst \notin Kept
    /\ ObjLast \notin Kept
    /\ Cardinality(Kept) = ObjOverlapSize - 2
    /\ \E i \in 1..(ObjOverlapSize - 1) :
          Obj.overlapping_indices[i + 1] > Obj.overlapping_indices[i] + 1

HasFormatted == constraint # <<>> /\ result.op = "format" /\ result.st = "ok"
Rule == result.val[1]

\* C23: the rule that format() returns agrees with what a read of .indices
\* returns on the same object: the value of an Equal rule is carried by every
\* row of the indices, that of a NotEqual rule by none of them, a LessThan
\* rule shows the value at the highest index, a GreaterThan rule the value at
\* the lowest index, a Range rule the values at the lowest and the highest.
C23_RuleAgreesWithIndices ==
    HasFormatted =>
       \A o \in Indices(Obj) :
          /\ o.st = "ok"
          /\ Rule.name = Obj.data.name
          /\ Obj.type = "Equal"
                => /\ Rule.relation = " == "
                   /\ \A i \in Elems(o.val) : Obj.data.rows[i + 1] = Rule.value
          /\ Obj.type = "NotEqual"
                => /\ Rule.relation = " != "
                   /\ \A i \in Elems(o.val) : Obj.data.rows[i + 1] # Rule.value
          /\ Obj.type = "LessThan"
                => /\ Rule.relation = " <= "
                   /\ Rule.value = Obj.data.rows[o.val[Len(o.val)] + 1]
          /\ Obj.type = "GreaterThan"
                => /\ Rule.relation = " >= "
                   /\ Rule.value = Obj.data.rows[o.val[1] + 1]
          /\ Obj.type = "Range"
                => /\ Rule.relation = " <= "
                   /\ Rule.prefix = <<Obj.data.rows[o.val[1] + 1]>>
                   /\ Rule.value = Obj.data.rows[o.val[Len(o.val)] + 1]

\* a LessThan rule over several rows whose end was drawn
C23_Witness ==
    /\ HasFormatted
    /\ Obj.type = "LessThan"
    /\ Obj.reduce_amount >= 1
    /\ Len(Obj.random_source.stream) >= 1
    /\ Rule.value # Obj.data.rows[1]
    /\ Rule.value # Obj.data.rows[ObjRows]

NextColumnDue == pc = "generating" /\ Len(table.columns) < Len(column_generators)

\* C25: whenever create_table is about to generate a column, a column
\* remains, and the reduce_amount it computes from overlapping_rows does not
\* exceed the size of the overlapping_indices it hands to the constraint:
\* the constructor does not raise its ValueError.
C25_ReductionFeasible ==
    NextColumnDue =>
       \A rows_read \in OverlappingIndices(table) :
          rows_read.st = "ok" =>
             LET t1 == [table EXCEPT !.columns = rows_read.rs]
             IN  /\ RemainingColumns(t1) >= 1
                 /\ \A overlap_read \in OverlappingIndices(t1) :
                       overlap_read.st = "ok" =>
                          \A type \in ContinuousTypes \cup DiscreteTypes :
                             ConstraintInit(type, [name |-> "", rows |-> <<>>],
                                            overlap_read.val,
                                            ReduceAmount(Len(rows_read.val),
                                                         RemainingColumns(t1))).st
                                = "ok"

\* the last column of three is due, and it has to take away all rows of the
\* overlap but one
C25_Witness ==
    /\ NextColumnDue
    /\ Len(table.columns) = 2
    /\ RemainingColumns(table) = 1
    /\ \E o \in OverlappingIndices(table) :
          /\ o.st = "ok"
          /\ Len(o.val) >= 2
          /\ ReduceAmount(Len(o.val), 1) = Len(o.val) - 1

\* C26 as stated: once create_table has appended a column, a read of
\* overlapping_indices that returns holds at least one row.
C26_OverlapNonEmpty ==
    (pc \in {"generating", "done"} /\ Len(table.columns) >= 1)
    => \A o \in OverlappingIndices(table) : o.st = "ok" => Len(o.val) >= 1

\* ============================================ claims: constraints, the reads
\* C27 as stated: a read of .indices on a constraint that was constructed
\* returns an index sequence, whatever its reduce_amount and overlap.
C27_ReadNeverFails == HasRead => result.st = "ok"

\* ================================================ claims: the generator list
\* k is n * quarters / 4 rounded to the nearest integer, a half to the even
\* neighbour
IsRoundedQuarters(k, n, quarters) ==
    /\ 4 * k - quarters * n \in -2..2
    /\ Abs(4 * k - quarters * n) = 2 => k % 2 = 0

\* the number of discrete generators in a generator list
DiscreteHead(generators) ==
    Cardinality({k \in 1..Len(generators) : generators[k].kind = "discrete"})

\* C28: for num_columns >= 1 the list that _get_random_generators returns
\* has num_columns entries: round(0.25 * num_columns) discrete ones, then
\* round(0.75 * num_columns) continuous ones, at least one, halves rounded to
\* even; a create_table that returned left num_columns columns and none
\* remaining.
C28_GeneratorCount ==
    /\ (pc \in {"listed", "generating"} /\ table.num_columns >= 1)
          => LET discrete == DiscreteHead(column_generators)
                 continuous == Len(column_generators) - discrete
             IN  /\ Len(column_generators) = table.num_columns
                 /\ \A k \in 1..Len(column_generators) :
                       column_generators[k].kind
                          = IF k <= discrete THEN "discrete" ELSE "continuous"
                 /\ IsRoundedQuarters(discrete, table.num_columns, 1)
                 /\ IsRoundedQuarters(continuous, table.num_columns, 3)
                 /\ continuous >= 1
    /\ (pc = "done" /\ table.num_columns >= 1)
          => /\ Len(table.columns) = table.num_columns
             /\ RemainingColumns(table) = 0

\* ten columns: 2.5 and 7.5 round to 2 and 8
C28_Witness ==
    /\ pc = "listed"
    /\ table.num_columns = 10
    /\ DiscreteHead(column_generators) = 2
    /\ Len(column_generators) = 10

\* ============================================== claims: Table, wide tables
\* C29 as stated: the value that an EqualConstraint constructed by
\* create_table selects occurs at least once in the overlap the constraint
\* was constructed with.
C29_EqualValueInOverlap ==
    \A k \in 1..Len(table.columns) :
       LET c == table.columns[k].constraint
       IN  c.type = "Equal" => OccurrencesInOverlap(c, EqualClosestValue(c)) >= 1

\* ======================================= claims: constraints, discrete rules
\* C30: on a discrete column of one row or more, a read of Equal.indices
\* returns at least one row and a read of NotEqual.indices leaves out at
\* least one row of 0..num_rows-1, and format() of either returns a rule
\* whose value is a value of the column.
C30_DiscreteRuleFound ==
    (constraint # <<>> /\ Obj.type \in DiscreteTypes /\ ObjRows >= 1)
    => /\ HasRead
          => /\ result.st = "ok"
             /\ Elems(result.val) \subseteq 0..(ObjRows - 1)
             /\ Obj.type = "Equal" => result.val # <<>>
             /\ Obj.type = "NotEqual" => Elems(result.val) # 0..(ObjRows - 1)
       /\ result.op = "format"
          => /\ result.st = "ok"
             /\ Rule.value \in Elems(Obj.data.rows)

\* an Equal rule whose value no row of the overlap carries
C30_Witness ==
    /\ HasFormatted
    /\ Obj.type = "Equal"
    /\ ObjOverlapSize >= 1
    /\ OverlapCount(Rule.value) = 0
    /\ Cardinality(Elems(Obj.data.rows)) >= 2

====
